---------------------------- MODULE Spec2Model ----------------------------
(* keep-exporter: one-way mirror of Google Keep notes to a local tree of     *)
(* markdown files.  The model follows cli.py:main (the reconciliation        *)
(* driver) and the helpers of export.py it calls.  A run is                  *)
(*   login -> mkdir -> index_existing_files -> keep.all()                    *)
(*         -> delete_local_only_files -> per-note loop -> report.            *)
EXTENDS Integers, Sequences, FiniteSets, TLC

(***************************************************************************)
(* Bounds of the model.                                                    *)
(***************************************************************************)
MaxNotes == 2
MaxTime == 2
MaxSnapshots == 2

NoteIds == 1..MaxNotes
Times == 1..MaxTime
\* titles a remote note may carry: the empty one ("untitled") and one that
\* needs strip() and sanitize_filename() to become "a"
Titles == {"", " a:"}
\* the created date of the notes (one date: equal dates make file names collide)
Dates == {"2024-01-01"}
\* --date-format: the default
DateFormats == {"%Y-%m-%d"}
\* media attached to a remote note / found in <output>/media/<id>/
MediaIds == {"m1"}

(***************************************************************************)
(* Values.                                                                 *)
(***************************************************************************)
\* a python datetime (gkeepapi timestamps), a python float (what
\* datetime.timestamp() returns and what YAML stores), and None
DateTime(t) == <<"datetime", t>>
Float(t) == <<"float", t>>
None == <<"none", 0>>

\* datetime.timestamp(): the POSIX timestamp of a datetime, a float
Timestamp(dt) == Float(dt[2])

\* python's == between the stored header value and a datetime: values of
\* different types never compare equal
PyEq(a, b) == a = b

\* a path is <<sanitized date part, sanitized title part, id, n>>;
\* id = 0 and n = 0 for the plain name "<date> - <title>.md"
NoPath == <<"", "", 0, 0>>

\* str.strip()
Strip(s) == IF s = " a:" THEN "a:" ELSE s

\* pathvalidate.sanitize_filename: drops the characters invalid in a file name
Sanitize(s) ==
    CASE s = "a:" -> "a"
      [] s = "2024-01-01T00:00:00" -> "2024-01-01T000000"
      [] OTHER -> s

\* datetime.strftime
Strftime(created, date_format) ==
    IF date_format = "%Y-%m-%d" THEN created ELSE "2024-01-01T00:00:00"

\* the title used in the file name
NoteTitle(note) == IF Strip(note.title) = "" THEN "untitled" ELSE Strip(note.title)

\* notepath / sanitize_filename(f"{date_str} - " + title) + ".md"
CandidatePath(note, date_format) ==
    <<Sanitize(Strftime(note.created, date_format)), Sanitize(NoteTitle(note)), 0, 0>>

\* notepath / sanitize_filename(...) + f".{note.id}.{dedupe_index}.md"
DedupePath(note, date_format, id, n) ==
    <<Sanitize(Strftime(note.created, date_format)), Sanitize(NoteTitle(note)), id, n>>

(***************************************************************************)
(* State.                                                                  *)
(***************************************************************************)
VARIABLES
    pc,             \* position of main: idle, logged_in, dirs, indexed, fetched, loop, done,
                    \* or where an exception left it: login_failed, index_raised,
                    \* fetch_failed, media_failed, loop_aborted
    opts,           \* the command line options of the runs
    remote,         \* the notes held by Google Keep: id -> note
    dirs,           \* which of notepath, mediapath exist
    fs,             \* the markdown files of the output directory: path -> file
    media,          \* the media files: <<note id, media id>> for media/<id>/<media id>.<ext>
    local_index,    \* id -> [path, timestamp_updated, media]
    keep_notes,     \* the snapshot fetched by keep.all(): id -> note
    todo,           \* ids of keep_notes the loop has not yet reached
    skipped_notes, updated_notes, new_notes, deleted_notes, deleted_media,
    outcome,        \* id -> SKIP / CREATE / UPDATE, the branch the loop took
    unlinked,       \* paths unlinked in this run
    wrote,          \* <<id, path>> written by write_note in this run
    moved,          \* <<id, from, to>> renamed in this run
    prev_done,      \* the previous run reached "Finished syncing."
    dirs0,          \* the directories that existed when this run started
    history,        \* <<id, from, to>> renamed in this or an earlier run
    ret,            \* the last call of a helper made on its own: its arguments and result
    snapshot        \* how many snapshots Google Keep has shown: the notes change between runs

vars == <<pc, opts, remote, dirs, fs, media, local_index, keep_notes, todo,
          skipped_notes, updated_notes, new_notes, deleted_notes, deleted_media,
          outcome, unlinked, wrote, moved, prev_done, dirs0, history, ret, snapshot>>

AllDirs == {"notepath", "mediapath"}
Empty == [x \in {} |-> 0]
\* no helper called
NoRet == [fn |-> "", id |-> 0, from |-> NoPath, target |-> NoPath, path |-> NoPath]

\* the notes that carry media, remotely or in media/<id>/: note 1 has one
\* attachment, the other notes have none
MediaNotes == {1}

\* a remote note
Notes == [title : Titles, created : Dates, updated : {DateTime(t) : t \in Times},
          media : SUBSET MediaIds]

\* files a user may have in the directory before the first run: notes exported
\* earlier (float timestamp in the header), notes whose header holds a YAML
\* timestamp (loaded as datetime), markdown files without google_keep_id,
\* a markdown file open() fails on ("ioerr") and a markdown file without
\* front matter ("nokeys")
InitFiles ==
    {[id |-> i, ts |-> t, hdr |-> "ok", body |-> <<i, 1>>] :
        i \in NoteIds, t \in {Float(1), DateTime(1)}}
    \cup {[id |-> 0, ts |-> Float(1), hdr |-> "ok", body |-> <<0, 0>>],
          [id |-> 0, ts |-> None, hdr |-> "ioerr", body |-> <<0, 0>>],
          [id |-> 0, ts |-> None, hdr |-> "nokeys", body |-> <<0, 0>>]}

\* where they may be: the plain names of the default date format
InitPaths == {<<"2024-01-01", "untitled", 0, 0>>, <<"2024-01-01", "a", 0, 0>>}

\* the snapshots Google Keep may hold
Snapshots ==
    UNION {{r \in [ids -> Notes] :
               \A i \in ids : r[i].media = (IF i \in MediaNotes THEN MediaIds ELSE {})} :
           ids \in SUBSET NoteIds}

Options == [delete_local : BOOLEAN, rename_local : BOOLEAN, header : BOOLEAN,
            date_format : DateFormats]

Init ==
    /\ pc = "idle"
    /\ opts \in Options
    /\ remote \in Snapshots
    /\ \E ps \in SUBSET InitPaths : fs \in [ps -> InitFiles]
    /\ media \in SUBSET ((NoteIds \cap MediaNotes) \X MediaIds)
    /\ dirs \in (IF fs = Empty /\ media = {} THEN {{}, AllDirs} ELSE {AllDirs})
    /\ local_index = Empty
    /\ keep_notes = Empty
    /\ todo = {}
    /\ skipped_notes = 0 /\ updated_notes = 0 /\ new_notes = 0
    /\ deleted_notes = 0 /\ deleted_media = 0
    /\ outcome = Empty
    /\ unlinked = {} /\ wrote = {} /\ moved = {}
    /\ prev_done = FALSE
    /\ dirs0 = dirs
    /\ history = {}
    /\ ret = NoRet
    /\ snapshot = 1

(***************************************************************************)
(* export.py helpers.                                                      *)
(***************************************************************************)
\* the file with path p removed / the file f put at path p
Without(files, p) == [q \in (DOMAIN files) \ {p} |-> files[q]]
With(files, p, f) == [q \in (DOMAIN files) \cup {p} |-> IF q = p THEN f ELSE files[q]]

\* index[id] = entry, the other entries kept
Put(index, id, entry) ==
    [i \in (DOMAIN index) \cup {id} |-> IF i = id THEN entry ELSE index[i]]

\* the orders in which directory.rglob("*") may yield the files
ScanOrders(files) ==
    {o \in [1..Cardinality(DOMAIN files) -> DOMAIN files] :
        \A i, j \in DOMAIN o : i # j => o[i] # o[j]}

\* a scan that enters every parsed file, with or without google_keep_id
ScanFileAnyId(file, fm, index) ==
    IF fm.hdr = "ioerr" THEN index
    ELSE Put(index, fm.id, [path |-> file, timestamp_updated |-> fm.ts, media |-> {}])

\* the markdown branch of the scan loop for one file: the index after it
ScanFile(file, fm, index) ==
    IF fm.hdr = "ioerr" THEN index
    ELSE IF fm.id # 0
         THEN Put(index, fm.id, [path |-> file, timestamp_updated |-> fm.ts, media |-> {}])
         ELSE index

\* the scan loop over the files order[k..]
RECURSIVE ScanFrom(_, _, _, _)
ScanFrom(order, k, files, index) ==
    IF k > Len(order) THEN index
    ELSE ScanFrom(order, k + 1, files, ScanFile(order[k], files[order[k]], index))

\* the errors counter of the scan after the files order[k..]: the handler of
\* IOError assigns 0 to it
RECURSIVE ErrorsFrom(_, _, _, _)
ErrorsFrom(order, k, files, errors) ==
    IF k > Len(order) THEN errors
    ELSE ErrorsFrom(order, k + 1, files,
                    IF files[order[k]].hdr = "ioerr" THEN 0 ELSE errors)

\* the "errors" the scan reports in "Indexed local files: ..."
ScanErrors(order, files) == ErrorsFrom(order, 1, files, 0)

\* what the scan echoes: a line for each markdown file it cannot open, a line
\* for each file that is not markdown, and the counts at the end
ScanEchoes(files, mediafiles) ==
    {"Indexed local files"}
    \cup (IF \E p \in DOMAIN files : files[p].hdr = "ioerr"
          THEN {"Unable to open Markdown file"} ELSE {})
    \cup (IF mediafiles # {} THEN {"Ignoring media file"} ELSE {})

\* frontmatter metadata without a "timestamps" mapping: .get("timestamps") is
\* None and None.get raises AttributeError, which except IOError does not catch
ScanRaises(files) == \E p \in DOMAIN files : files[p].hdr = "nokeys"

\* the media branch: a media file is registered under its note id, with a
\* placeholder entry (path absent) for an id no note file carries
IndexMedia(index, mediafiles) ==
    LET ids == (DOMAIN index) \cup {m[1] : m \in mediafiles}
    IN  [i \in ids |->
            LET e == IF i \in DOMAIN index THEN index[i]
                     ELSE [path |-> NoPath, timestamp_updated |-> None, media |-> {}]
            IN  [e EXCEPT !.media = {m[2] : m \in {x \in mediafiles : x[1] = i}}]]

index_existing_files(order, files, mediafiles) ==
    IndexMedia(ScanFrom(order, 1, files, Empty), mediafiles)

\* the while loop of build_note_unique_path, dedupe_index = n
RECURSIVE DedupeLoop(_, _, _, _, _)
DedupeLoop(note, date_format, id, n, files) ==
    LET target_path == DedupePath(note, date_format, id, n)
    IN  IF target_path \in DOMAIN files
        THEN DedupeLoop(note, date_format, id, n + 1, files)
        ELSE target_path

\* a resolver without the de-dupe loop
build_note_unique_path_plain(id, note, date_format, index, files) ==
    LET target_path == CandidatePath(note, date_format)
    IN  IF id \in DOMAIN index /\ index[id].path = target_path
           THEN index[id].path
        ELSE IF id \in DOMAIN index /\ target_path \in DOMAIN files
           THEN index[id].path
        ELSE target_path

\* a resolver that de-dupes the name of an indexed note too (the "initial
\* pass" the comment of build_note_unique_path speaks of)
build_note_unique_path_bounce(id, note, date_format, index, files) ==
    LET target_path == CandidatePath(note, date_format)
    IN  IF id \in DOMAIN index /\ index[id].path = target_path
           THEN index[id].path
        ELSE IF target_path \in DOMAIN files
           THEN DedupeLoop(note, date_format, id, 1, files)
        ELSE target_path

\* a resolver that never looks the note up in the index
build_note_unique_path_noindex(id, note, date_format, index, files) ==
    LET target_path == CandidatePath(note, date_format)
    IN  IF target_path \in DOMAIN files
           THEN DedupeLoop(note, date_format, id, 1, files)
        ELSE target_path

build_note_unique_path(id, note, date_format, index, files) ==
    LET target_path == CandidatePath(note, date_format)
    IN  IF id \in DOMAIN index /\ index[id].path = target_path
           THEN index[id].path
        ELSE IF id \in DOMAIN index /\ target_path \in DOMAIN files
           THEN index[id].path
        ELSE IF target_path \in DOMAIN files
           THEN DedupeLoop(note, date_format, id, 1, files)
        ELSE target_path

\* a rename that reports the new name although rename() raised
try_rename_note_lossy(path, target_file, ok, files) ==
    IF ok /\ path # NoPath
    THEN [path |-> target_file,
          files |-> With(Without(files, path), target_file, files[path])]
    ELSE [path |-> target_file, files |-> files]

\* a rename that copies the file and leaves the old one
try_rename_note_copy(path, target_file, ok, files) ==
    IF ok /\ path # NoPath
    THEN [path |-> target_file, files |-> With(files, target_file, files[path])]
    ELSE [path |-> path, files |-> files]

\* note.path.rename(target_file): the path the note now has and the files;
\* ok = FALSE is rename() raising; with note.path None the attribute lookup
\* raises, and except Exception returns note.path as for any other failure
try_rename_note(path, target_file, ok, files) ==
    IF ok /\ path # NoPath
    THEN [path |-> target_file,
          files |-> With(Without(files, path), target_file, files[path])]
    ELSE [path |-> path, files |-> files]

\* frontmatter.dump(build_frontmatter(note, markdown)) or the bare markdown
NoteFile(id, note, header) ==
    IF header
    THEN [id |-> id, ts |-> Timestamp(note.updated), hdr |-> "ok",
          body |-> <<id, note.updated[2]>>]
    ELSE [id |-> 0, ts |-> None, hdr |-> "nokeys", body |-> <<id, note.updated[2]>>]

write_note(target_path, header, id, note, files) ==
    With(files, target_path, NoteFile(id, note, header))

\* the media files of the note, fetched into media/<id>/
download_media(id, note, mediafiles) ==
    mediafiles \cup {<<id, m>> : m \in note.media}

\* ids in the index and not in the snapshot
OrphanNotes(index, notes) == (DOMAIN index) \ (DOMAIN notes)

\* an orphan step that does not look at the authorization
OrphanPathsUnguarded(index, notes, delete_local) ==
    {index[i].path : i \in {j \in OrphanNotes(index, notes) : index[j].path # NoPath}}

\* an orphan step that takes every indexed note for an orphan
OrphanPathsAll(index, notes, delete_local) ==
    IF delete_local
    THEN {index[i].path : i \in {j \in DOMAIN index : index[j].path # NoPath}}
    ELSE {}

\* the paths delete_local_only_files unlinks
OrphanPaths(index, notes, delete_local) ==
    IF delete_local
    THEN {index[i].path : i \in {j \in OrphanNotes(index, notes) : index[j].path # NoPath}}
    ELSE {}

\* the indexed (note id, media id) pairs no remote note references
OrphanMedia(index, notes, delete_local) ==
    IF delete_local
    THEN {<<i, m>> : i \in DOMAIN index, m \in MediaIds} \cap
         {x \in NoteIds \X MediaIds :
             /\ x[1] \in DOMAIN index
             /\ x[2] \in index[x[1]].media
             /\ ~(x[1] \in DOMAIN notes /\ x[2] \in notes[x[1]].media)}
    ELSE {}

(***************************************************************************)
(* cli.py main.                                                            *)
(***************************************************************************)
RunVarsReset ==
    /\ local_index' = Empty
    /\ keep_notes' = Empty
    /\ todo' = {}
    /\ skipped_notes' = 0 /\ updated_notes' = 0 /\ new_notes' = 0
    /\ deleted_notes' = 0 /\ deleted_media' = 0
    /\ outcome' = Empty
    /\ unlinked' = {} /\ wrote' = {} /\ moved' = {}

Stopped == {"idle", "done", "login_failed", "index_raised", "fetch_failed",
            "media_failed", "loop_aborted"}
CanStart == pc \in Stopped

\* keep = login(user, password, token) succeeds
Login ==
    /\ CanStart
    /\ pc' = "logged_in"
    /\ prev_done' = (pc = "done")
    /\ dirs0' = dirs
    /\ RunVarsReset
    /\ UNCHANGED <<opts, remote, dirs, fs, media, history, ret, snapshot>>

\* login raises (LoginException as click.BadParameter, or a transport error)
LoginFails ==
    /\ CanStart
    /\ pc' = "login_failed"
    /\ prev_done' = (pc = "done")
    /\ dirs0' = dirs
    /\ RunVarsReset
    /\ UNCHANGED <<opts, remote, dirs, fs, media, history, ret, snapshot>>

\* notepath.mkdir(parents=True); mediapath.mkdir(parents=True)
MakeDirectories ==
    /\ pc = "logged_in"
    /\ dirs' = AllDirs
    /\ pc' = "dirs"
    /\ UNCHANGED <<opts, remote, fs, media, local_index, keep_notes, todo,
                   skipped_notes, updated_notes, new_notes, deleted_notes,
                   deleted_media, outcome, unlinked, wrote, moved, prev_done, dirs0, history, ret, snapshot>>

\* local_index = index_existing_files(notepath)
IndexExistingFiles ==
    /\ pc = "dirs"
    /\ ~ScanRaises(fs)
    /\ \E order \in ScanOrders(fs) :
          local_index' = index_existing_files(order, fs, media)
    /\ pc' = "indexed"
    /\ UNCHANGED <<opts, remote, dirs, fs, media, keep_notes, todo,
                   skipped_notes, updated_notes, new_notes, deleted_notes,
                   deleted_media, outcome, unlinked, wrote, moved, prev_done, dirs0, history, ret, snapshot>>

\* the scan meets a note file it cannot parse: the exception leaves main
IndexRaises ==
    /\ pc = "dirs"
    /\ ScanRaises(fs)
    /\ pc' = "index_raised"
    /\ UNCHANGED <<opts, remote, dirs, fs, media, local_index, keep_notes, todo,
                   skipped_notes, updated_notes, new_notes, deleted_notes,
                   deleted_media, outcome, unlinked, wrote, moved, prev_done, dirs0, history, ret, snapshot>>

\* keep_notes = dict([(note.id, note) for note in keep.all()])
FetchRemote ==
    /\ pc = "indexed"
    /\ keep_notes' = remote
    /\ pc' = "fetched"
    /\ UNCHANGED <<opts, remote, dirs, fs, media, local_index, todo,
                   skipped_notes, updated_notes, new_notes, deleted_notes,
                   deleted_media, outcome, unlinked, wrote, moved, prev_done, dirs0, history, ret, snapshot>>

\* the note source raises while the snapshot is fetched
FetchFails ==
    /\ pc = "indexed"
    /\ pc' = "fetch_failed"
    /\ UNCHANGED <<opts, remote, dirs, fs, media, local_index, keep_notes, todo,
                   skipped_notes, updated_notes, new_notes, deleted_notes,
                   deleted_media, outcome, unlinked, wrote, moved, prev_done, dirs0, history, ret, snapshot>>

\* deleted_notes, deleted_media = delete_local_only_files(local_index, keep_notes, delete_local)
delete_local_only_files(index, notes, delete_local) ==
    [paths |-> OrphanPaths(index, notes, delete_local),
     media |-> OrphanMedia(index, notes, delete_local)]

\* an orphan step that scans the directory again after its deletions
DeleteLocalOnlyFilesRescan ==
    /\ pc = "fetched"
    /\ LET d == delete_local_only_files(local_index, keep_notes, opts.delete_local)
       IN  /\ fs' = [p \in (DOMAIN fs) \ d.paths |-> fs[p]]
           /\ media' = media \ d.media
           /\ unlinked' = d.paths
           /\ deleted_notes' = Cardinality(d.paths)
           /\ deleted_media' = Cardinality(d.media)
    /\ \E order \in ScanOrders(fs') :
          local_index' = index_existing_files(order, fs', media')
    /\ todo' = DOMAIN keep_notes
    /\ pc' = "loop"
    /\ UNCHANGED <<opts, remote, dirs, keep_notes,
                   skipped_notes, updated_notes, new_notes,
                   outcome, wrote, moved, prev_done, dirs0, history, ret, snapshot>>

DeleteLocalOnlyFiles ==
    /\ pc = "fetched"
    /\ LET d == delete_local_only_files(local_index, keep_notes, opts.delete_local)
       IN  /\ fs' = [p \in (DOMAIN fs) \ d.paths |-> fs[p]]
           /\ media' = media \ d.media
           /\ unlinked' = d.paths
           /\ deleted_notes' = Cardinality(d.paths)
           /\ deleted_media' = Cardinality(d.media)
    /\ todo' = DOMAIN keep_notes
    /\ pc' = "loop"
    /\ UNCHANGED <<opts, remote, dirs, local_index, keep_notes,
                   skipped_notes, updated_notes, new_notes,
                   outcome, wrote, moved, prev_done, dirs0, history, ret, snapshot>>

\* an iteration that renames whether or not --rename-local is given
ResolveAlwaysRename(id, note, o, index, files, renameOk) ==
    LET known == id \in DOMAIN index
        target_path == build_note_unique_path(id, note, o.date_format, index, files)
        local_path == IF known THEN index[id].path ELSE NoPath
        rename == local_path # NoPath /\ local_path # target_path
        r == IF rename THEN try_rename_note(local_path, target_path, renameOk, files)
             ELSE [path |-> IF local_path # NoPath THEN local_path ELSE target_path,
                   files |-> files]
        branch == IF ~known THEN "CREATE"
                  ELSE IF PyEq(index[id].timestamp_updated, note.updated) THEN "SKIP"
                  ELSE "UPDATE"
    IN  [path |-> r.path, files |-> r.files, branch |-> branch,
         renamed |-> rename /\ renameOk, from |-> local_path]

\* an iteration that takes a note found in the index for new when its
\* timestamp differs
ResolveCreateOnChange(id, note, o, index, files, renameOk) ==
    LET known == id \in DOMAIN index
        target_path == build_note_unique_path(id, note, o.date_format, index, files)
        local_path == IF known THEN index[id].path ELSE NoPath
        rename == local_path # NoPath /\ o.rename_local /\ local_path # target_path
        r == IF rename THEN try_rename_note(local_path, target_path, renameOk, files)
             ELSE [path |-> IF local_path # NoPath THEN local_path ELSE target_path,
                   files |-> files]
        branch == IF known /\ PyEq(index[id].timestamp_updated, note.updated) THEN "SKIP"
                  ELSE "CREATE"
    IN  [path |-> r.path, files |-> r.files, branch |-> branch,
         renamed |-> rename /\ renameOk, from |-> local_path]

\* an iteration that decides to skip before it looks at the file name
ResolveSkipFirst(id, note, o, index, files, renameOk) ==
    LET known == id \in DOMAIN index
        branch == IF ~known THEN "CREATE"
                  ELSE IF PyEq(index[id].timestamp_updated, note.updated) THEN "SKIP"
                  ELSE "UPDATE"
        target_path == build_note_unique_path(id, note, o.date_format, index, files)
        local_path == IF known THEN index[id].path ELSE NoPath
        rename == /\ local_path # NoPath /\ o.rename_local /\ local_path # target_path
                  /\ branch # "SKIP"
        r == IF rename THEN try_rename_note(local_path, target_path, renameOk, files)
             ELSE [path |-> IF local_path # NoPath THEN local_path ELSE target_path,
                   files |-> files]
    IN  [path |-> r.path, files |-> r.files, branch |-> branch,
         renamed |-> rename /\ renameOk, from |-> local_path]

\* what one iteration of "for note in keep_notes.values()" computes before the
\* media fetch: the path after the optional rename, the files, the branch
Resolve(id, note, o, index, files, renameOk) ==
    LET known == id \in DOMAIN index
        target_path == build_note_unique_path(id, note, o.date_format, index, files)
        local_path == IF known THEN index[id].path ELSE NoPath
        rename == local_path # NoPath /\ o.rename_local /\ local_path # target_path
        r == IF rename THEN try_rename_note(local_path, target_path, renameOk, files)
             ELSE [path |-> IF local_path # NoPath THEN local_path ELSE target_path,
                   files |-> files]
        branch == IF ~known THEN "CREATE"
                  ELSE IF PyEq(index[id].timestamp_updated, note.updated) THEN "SKIP"
                  ELSE "UPDATE"
    IN  [path |-> r.path, files |-> r.files, branch |-> branch,
         renamed |-> rename /\ renameOk, from |-> local_path]

ProcessNote(id) ==
    /\ pc = "loop"
    /\ id \in todo
    /\ \E renameOk \in BOOLEAN, fetchOk \in BOOLEAN :
        LET note == keep_notes[id]
            r == Resolve(id, note, opts, local_index, fs, renameOk)
            writes == r.branch # "SKIP"
            mediafails == writes /\ note.media # {} /\ ~fetchOk
            fails == mediafails \/ (writes /\ r.path = NoPath)
            wrotefiles == writes /\ ~fails
        IN  /\ new_notes' = new_notes + (IF r.branch = "CREATE" THEN 1 ELSE 0)
            /\ skipped_notes' = skipped_notes + (IF r.branch = "SKIP" THEN 1 ELSE 0)
            /\ updated_notes' = updated_notes + (IF r.branch = "UPDATE" THEN 1 ELSE 0)
            /\ moved' = IF r.renamed THEN moved \cup {<<id, r.from, r.path>>} ELSE moved
            /\ history' = IF r.renamed THEN history \cup {<<id, r.from, r.path>>} ELSE history
            /\ media' = IF writes /\ (note.media = {} \/ fetchOk)
                        THEN download_media(id, note, media) ELSE media
            /\ fs' = IF wrotefiles THEN write_note(r.path, opts.header, id, note, r.files)
                     ELSE r.files
            /\ wrote' = IF wrotefiles THEN wrote \cup {<<id, r.path>>} ELSE wrote
            /\ outcome' = IF fails THEN outcome ELSE Put(outcome, id, r.branch)
            /\ todo' = IF fails THEN todo ELSE todo \ {id}
            /\ pc' = IF mediafails THEN "media_failed"
                     ELSE IF fails THEN "loop_aborted" ELSE "loop"
    /\ UNCHANGED <<opts, remote, dirs, local_index, keep_notes,
                   deleted_notes, deleted_media, unlinked, prev_done, dirs0, ret, snapshot>>

\* click.echo("Finished syncing.") and the counts
Finish ==
    /\ pc = "loop"
    /\ todo = {}
    /\ pc' = "done"
    /\ UNCHANGED <<opts, remote, dirs, fs, media, local_index, keep_notes, todo,
                   skipped_notes, updated_notes, new_notes, deleted_notes,
                   deleted_media, outcome, unlinked, wrote, moved, prev_done, dirs0, history, ret, snapshot>>

Next ==
    \/ Login
    \/ LoginFails
    \/ MakeDirectories
    \/ IndexExistingFiles
    \/ IndexRaises
    \/ FetchRemote
    \/ FetchFails
    \/ DeleteLocalOnlyFiles
    \/ \E id \in NoteIds : ProcessNote(id)
    \/ Finish

Spec == Init /\ [][Next]_vars

\* after a completed run the user adds, edits or deletes notes in Google Keep
RemoteChanges ==
    /\ pc = "done"
    /\ snapshot < MaxSnapshots
    /\ remote' \in Snapshots \ {remote}
    /\ snapshot' = snapshot + 1
    /\ UNCHANGED <<pc, opts, dirs, fs, media, local_index, keep_notes, todo,
                   skipped_notes, updated_notes, new_notes, deleted_notes,
                   deleted_media, outcome, unlinked, wrote, moved, prev_done, dirs0,
                   history, ret>>

\* runs over a note collection that changes between them, header enabled,
\* from a directory that holds at most one markdown file: a note with a YAML
\* timestamp or a file without front matter
NextSnapshots == Next \/ RemoteChanges
InitSnapshots ==
    /\ Init
    /\ opts.header
    /\ dirs = AllDirs /\ media = {}
    /\ Cardinality(DOMAIN fs) <= 1
    /\ \A p \in DOMAIN fs : fs[p].hdr # "ioerr" /\ fs[p].ts # Float(1)
SpecSnapshots == InitSnapshots /\ [][NextSnapshots]_vars

\* the runs that start from an output directory that holds nothing
InitFresh == Init /\ fs = Empty /\ media = {}
SpecFresh == InitFresh /\ [][Next]_vars

(***************************************************************************)
(* The helpers of export.py called on their own: the arguments are drawn   *)
(* from the indexes and directories a scan can produce, one call is made   *)
(* and its result kept in ret.                                             *)
(***************************************************************************)
\* file names in the directory: the plain names and names that carry a
\* de-dupe suffix for note 1
UnitPaths ==
    InitPaths \cup {<<"2024-01-01", "untitled", 1, 1>>, <<"2024-01-01", "untitled", 1, 2>>}

\* the files: markdown files without google_keep_id and files of note 1
UnitFiles ==
    {[id |-> 0, ts |-> Float(1), hdr |-> "ok", body |-> <<0, 0>>],
     [id |-> 1, ts |-> Float(1), hdr |-> "ok", body |-> <<1, 1>>]}

\* the indexes the scan can return for the files: an entry for note 1 at one
\* of its files; without such a file no entry, or the entry its media leave
UnitIndexes(files) ==
    LET own == {p \in DOMAIN files : files[p].id = 1}
    IN  IF own # {}
        THEN {[i \in {1} |-> [path |-> p, timestamp_updated |-> files[p].ts, media |-> {}]] :
                 p \in own}
        ELSE {Empty,
              [i \in {1} |-> [path |-> NoPath, timestamp_updated |-> None, media |-> MediaIds]]}

InitUnit ==
    /\ pc = "call"
    /\ opts \in Options
    /\ keep_notes \in {r \in [{1} -> Notes] : r[1].media = MediaIds}
    /\ remote = keep_notes
    /\ \E ps \in SUBSET UnitPaths : fs \in [ps -> UnitFiles]
    /\ local_index \in UnitIndexes(fs)
    /\ media = {<<i, m>> : i \in DOMAIN local_index, m \in MediaIds} \cap
               {x \in NoteIds \X MediaIds : x[2] \in local_index[x[1]].media}
    /\ dirs = AllDirs
    /\ todo = {}
    /\ skipped_notes = 0 /\ updated_notes = 0 /\ new_notes = 0
    /\ deleted_notes = 0 /\ deleted_media = 0
    /\ outcome = Empty
    /\ unlinked = {} /\ wrote = {} /\ moved = {}
    /\ prev_done = FALSE
    /\ dirs0 = dirs
    /\ history = {}
    /\ ret = NoRet
    /\ snapshot = 1

\* target_path = build_note_unique_path(notepath, note, date_format, local_index)
CallBuildNoteUniquePath ==
    /\ pc = "call"
    /\ \E id \in DOMAIN keep_notes :
          ret' = [fn |-> "build_note_unique_path", id |-> id,
                  from |-> IF id \in DOMAIN local_index THEN local_index[id].path ELSE NoPath,
                  target |-> CandidatePath(keep_notes[id], opts.date_format),
                  path |-> build_note_unique_path(id, keep_notes[id], opts.date_format,
                                                  local_index, fs)]
    /\ pc' = "returned"
    /\ UNCHANGED <<opts, remote, dirs, fs, media, local_index, keep_notes, todo,
                   skipped_notes, updated_notes, new_notes, deleted_notes,
                   deleted_media, outcome, unlinked, wrote, moved, prev_done, dirs0, history, snapshot>>

\* try_rename_note(local_index[id], target_file)
CallTryRenameNote ==
    /\ pc = "call"
    /\ \E id \in DOMAIN local_index, target_file \in UnitPaths, ok \in BOOLEAN :
          LET r == try_rename_note(local_index[id].path, target_file, ok, fs)
          IN  /\ fs' = r.files
              /\ ret' = [fn |-> "try_rename_note", id |-> id,
                         from |-> local_index[id].path, target |-> target_file,
                         path |-> r.path]
    /\ pc' = "returned"
    /\ UNCHANGED <<opts, remote, dirs, media, local_index, keep_notes, todo,
                   skipped_notes, updated_notes, new_notes, deleted_notes,
                   deleted_media, outcome, unlinked, wrote, moved, prev_done, dirs0, history, snapshot>>

NextUnit ==
    \/ CallBuildNoteUniquePath
    \/ CallTryRenameNote

SpecUnit == InitUnit /\ [][NextUnit]_vars

(***************************************************************************)
(* Properties.                                                             *)
(***************************************************************************)
Canonical(id) == CandidatePath(keep_notes[id], opts.date_format)

\* C1 (idempotence): a run that completes right after a completed run, with the
\* same remote notes and options, creates, updates and deletes nothing and
\* ends every remote note as SKIP.
C1_SecondRunChangesNothing ==
    (pc = "done" /\ prev_done) =>
        /\ new_notes = 0
        /\ updated_notes = 0
        /\ deleted_notes = 0 /\ deleted_media = 0
        /\ wrote = {} /\ unlinked = {}
        /\ \A id \in DOMAIN keep_notes : outcome[id] = "SKIP"

\* the ids the index knows and the snapshot does not hold
Orphans == OrphanNotes(local_index, keep_notes)
\* the note files of the ids, as the index has them
IndexedPaths(ids) == {local_index[i].path : i \in {j \in ids : local_index[j].path # NoPath}}
\* no step but the orphan step takes a file away
NothingRemoved == Cardinality(DOMAIN fs') >= Cardinality(DOMAIN fs) /\ media \subseteq media'

\* C2 (non-destructive by default): without --delete-local no step of a run
\* removes a note file or a media file, and the files of the notes that are
\* indexed but absent from the snapshot stay where and as they were.
C2_NoDeletionUnlessAuthorized ==
    [][~opts.delete_local =>
          /\ NothingRemoved
          /\ unlinked' = {}
          /\ pc \in {"fetched", "loop"} =>
                /\ local_index' = local_index
                /\ \A p \in IndexedPaths(Orphans) :
                      p \in DOMAIN fs /\ p \in DOMAIN fs' /\ fs'[p] = fs[p]]_vars

C2_Witness ==
    /\ pc = "done" /\ ~opts.delete_local
    /\ IndexedPaths(Orphans) # {}
    /\ wrote # {}

C4_NoOverwrite ==
    [][\A w \in wrote' \ wrote :
          /\ w[2] \in DOMAIN fs => fs[w[2]].body[1] = w[1]
          /\ \A v \in wrote : v[2] = w[2] => v[1] = w[1]]_vars

C4_Witness ==
    /\ pc = "done"
    /\ \E v, w \in wrote :
          /\ v[1] # w[1] /\ v[2] # w[2]
          /\ Canonical(v[1]) = Canonical(w[1])
          /\ outcome[v[1]] = "CREATE" /\ outcome[w[1]] = "CREATE"

\* the note is indexed with a file
HasLocalPath(id) == id \in DOMAIN local_index /\ local_index[id].path # NoPath

\* C5 (no oscillation): with --rename-local and a fixed snapshot, a rename
\* goes to the note's canonical name, which was free; it never undoes an
\* earlier rename and no note is renamed twice, so the paths stay as they are
\* once each note was renamed; a note whose canonical name is taken keeps its path.
C5_NoOscillation ==
    [][opts.rename_local =>
          /\ \A m \in moved' \ moved :
                /\ <<m[1], m[3], m[2]>> \notin history
                /\ \A h \in history : h[1] # m[1]
                /\ m[3] = Canonical(m[1])
                /\ m[3] \notin DOMAIN fs
          /\ pc = "loop" =>
                \A id \in todo :
                    (HasLocalPath(id) /\ Canonical(id) \in DOMAIN fs) =>
                        /\ local_index[id].path \in DOMAIN fs'
                        /\ \A m \in moved' \ moved : m[1] # id]_vars

C5_Witness ==
    /\ pc = "done" /\ prev_done /\ opts.rename_local
    /\ history # {} /\ moved = {}
    /\ \E id \in DOMAIN keep_notes :
          HasLocalPath(id) /\ local_index[id].path # Canonical(id)

\* C6 (path stability): for a note indexed at its canonical name,
\* build_note_unique_path returns that name whatever else is on disk, and the
\* driver neither renames the file nor writes the note anywhere else.
C6_StablePath ==
    [][pc = "loop" =>
          \A id \in todo :
              (HasLocalPath(id) /\ local_index[id].path = Canonical(id)) =>
                  /\ build_note_unique_path(id, keep_notes[id], opts.date_format,
                                            local_index, fs) = local_index[id].path
                  /\ \A m \in moved' \ moved : m[1] # id
                  /\ \A w \in wrote' \ wrote : w[1] = id => w[2] = local_index[id].path
                  /\ local_index[id].path \in DOMAIN fs']_vars

C6_Witness ==
    /\ pc = "done" /\ opts.rename_local
    /\ Cardinality(DOMAIN fs) >= 2
    /\ \E id \in DOMAIN outcome :
          /\ HasLocalPath(id) /\ local_index[id].path = Canonical(id)
          /\ outcome[id] = "UPDATE"

\* C7 (rename opt-out): without --rename-local nothing is renamed; an indexed
\* remote note stays at its indexed path, is never taken for new, is skipped
\* exactly when the stored value equals the remote timestamp, and an update
\* is written to the indexed path and nowhere else.
C7_RenameOptOut ==
    (~opts.rename_local /\ pc \in {"loop", "done", "media_failed", "loop_aborted"}) =>
        /\ moved = {}
        /\ \A id \in DOMAIN keep_notes :
              HasLocalPath(id) =>
                  LET e == local_index[id]
                  IN  /\ e.path \in DOMAIN fs /\ fs[e.path].body[1] = id
                      /\ \A w \in wrote : w[1] = id => w[2] = e.path
                      /\ id \in DOMAIN outcome =>
                            /\ outcome[id] =
                                  (IF PyEq(e.timestamp_updated, keep_notes[id].updated)
                                   THEN "SKIP" ELSE "UPDATE")
                            /\ outcome[id] = "UPDATE" <=> <<id, e.path>> \in wrote

C7_Witness ==
    /\ pc = "done" /\ ~opts.rename_local
    /\ \E i, j \in DOMAIN outcome :
          /\ HasLocalPath(i) /\ local_index[i].path # Canonical(i) /\ outcome[i] = "SKIP"
          /\ HasLocalPath(j) /\ local_index[j].path # Canonical(j) /\ outcome[j] = "UPDATE"

\* C8 (foreign files): a markdown file without google_keep_id is never in the
\* index and no step changes, moves, replaces or removes it.
C8_ForeignUntouched ==
    [][/\ \A p \in DOMAIN fs : fs[p].id = 0 => p \in DOMAIN fs' /\ fs'[p] = fs[p]
       /\ pc' = "indexed" =>
             \A id \in DOMAIN local_index' :
                 local_index'[id].path # NoPath => fs'[local_index'[id].path].id # 0]_vars

C8_Witness ==
    /\ pc = "done" /\ opts.delete_local /\ opts.rename_local
    /\ unlinked # {} /\ wrote # {}
    /\ \E p \in DOMAIN fs :
          /\ fs[p].id = 0 /\ fs[p].hdr = "ok"
          /\ \E id \in DOMAIN outcome : Canonical(id) = p

\* C9 (per-note outcome): at the end of a completed run every remote note has
\* one outcome: CREATE iff the index has no entry for it, SKIP iff it has one
\* whose stored value equals the remote timestamp, UPDATE otherwise; the three
\* counters count these and add up to the number of remote notes.
C9_Outcomes ==
    pc = "done" =>
        /\ DOMAIN outcome = DOMAIN keep_notes
        /\ \A id \in DOMAIN keep_notes :
              /\ outcome[id] = "CREATE" <=> id \notin DOMAIN local_index
              /\ outcome[id] = "SKIP" <=>
                    (id \in DOMAIN local_index
                     /\ PyEq(local_index[id].timestamp_updated, keep_notes[id].updated))
              /\ outcome[id] \in {"SKIP", "CREATE", "UPDATE"}
        /\ new_notes = Cardinality({id \in DOMAIN outcome : outcome[id] = "CREATE"})
        /\ skipped_notes = Cardinality({id \in DOMAIN outcome : outcome[id] = "SKIP"})
        /\ updated_notes = Cardinality({id \in DOMAIN outcome : outcome[id] = "UPDATE"})
        /\ skipped_notes + updated_notes + new_notes = Cardinality(DOMAIN keep_notes)

C9_Witness ==
    /\ pc = "done"
    /\ skipped_notes + updated_notes + new_notes = 2
    /\ new_notes >= 1
    /\ skipped_notes = 1 \/ updated_notes = 1

\* C10 (fatal collaborator failure): when login or the fetch of the snapshot
\* raises, the run has created no directory and written, renamed or deleted
\* no file.
C10_AbortBeforeMutation ==
    pc \in {"login_failed", "fetch_failed"} =>
        /\ dirs = dirs0
        /\ wrote = {} /\ moved = {} /\ unlinked = {}

\* C11 (no partially reconciled tree): when a failure of the note source
\* (login, the fetch of the snapshot, a media fetch in the loop) ends the run,
\* it is not the case that files were deleted, renamed or written while
\* notes of the snapshot are still unprocessed.
C11_NoPartialTree ==
    pc \in {"login_failed", "fetch_failed", "media_failed"} =>
        ~(\/ unlinked # {} /\ todo # {}
          \/ \E m \in moved : todo \ {m[1]} # {}
          \/ \E w \in wrote : todo \ {w[1]} # {})

\* the path build_note_unique_path resolves for the note in the current state
Target(id) ==
    build_note_unique_path(id, keep_notes[id], opts.date_format, local_index, fs)

\* C12 (best-effort rename): when rename() fails try_rename_note returns the
\* original path and the file is still there; the iteration goes on and an
\* update is written to the original path; when rename() succeeds it returns
\* the new path and the file is at the new path only.
C12_BestEffortRename ==
    [][(pc = "loop" /\ opts.rename_local) =>
          \A id \in todo :
              (HasLocalPath(id) /\ Target(id) # local_index[id].path) =>
                  LET P == local_index[id].path
                      T == Target(id)
                      no == try_rename_note(P, T, FALSE, fs)
                      yes == try_rename_note(P, T, TRUE, fs)
                  IN  /\ P \in DOMAIN fs
                      /\ no.path = P /\ no.files = fs
                      /\ yes.path = T /\ T \in DOMAIN yes.files
                      /\ P \notin DOMAIN yes.files /\ yes.files[T] = fs[P]
                      /\ id \notin todo' =>
                            /\ pc' = "loop"
                            /\ IF <<id, P, T>> \in moved'
                               THEN /\ T \in DOMAIN fs' /\ P \notin DOMAIN fs'
                                    /\ \A w \in wrote' \ wrote : w = <<id, T>>
                               ELSE /\ P \in DOMAIN fs' /\ T \notin DOMAIN fs'
                                    /\ \A w \in wrote' \ wrote : w = <<id, P>>
                                    /\ outcome'[id] = "UPDATE" => <<id, P>> \in wrote']_vars

C12_Witness ==
    /\ pc = "done" /\ opts.rename_local /\ moved = {}
    /\ Cardinality(DOMAIN keep_notes) = 2
    /\ \E id \in DOMAIN keep_notes :
          /\ HasLocalPath(id)
          /\ local_index[id].path # Canonical(id)
          /\ Canonical(id) \notin DOMAIN fs
          /\ <<id, local_index[id].path>> \in wrote

\* the note files the scan cannot read or parse
Unreadable(files) == {p \in DOMAIN files : files[p].hdr \in {"ioerr", "nokeys"}}

\* C13 (recoverable local-read errors): a note file that cannot be read, or
\* whose header cannot be parsed or lacks the expected keys, never aborts the
\* run; the scan counts one error for each such file, leaves it out of the
\* index and unmodified, and indexes the other files.
C13_ReadErrorsAreRecoverable ==
    /\ pc # "index_raised"
    /\ pc = "indexed" =>
          /\ \A order \in ScanOrders(fs) :
                ScanErrors(order, fs) = Cardinality(Unreadable(fs))
          /\ \A id \in DOMAIN local_index :
                local_index[id].path \notin Unreadable(fs)
          /\ \A p \in DOMAIN fs :
                (p \notin Unreadable(fs) /\ fs[p].id # 0) => fs[p].id \in DOMAIN local_index

RenameDue(id) ==
    /\ HasLocalPath(id)
    /\ PyEq(local_index[id].timestamp_updated, keep_notes[id].updated)
    /\ Canonical(id) # local_index[id].path
    /\ Canonical(id) \notin DOMAIN fs

\* C15 (rename before the skip decision): with --rename-local, an unchanged
\* note whose canonical name is free and differs from its path is renamed to
\* the canonical name (rename() permitting) and ends as SKIP: the content of
\* its file is not rewritten and no media is fetched.
C15_RenameBeforeSkip ==
    [][(pc = "loop" /\ opts.rename_local) =>
          \A id \in todo :
              RenameDue(id) =>
                  LET P == local_index[id].path
                      C == Canonical(id)
                  IN  /\ ENABLED (ProcessNote(id) /\ moved' = moved \cup {<<id, P, C>>})
                      /\ id \notin todo' =>
                            /\ outcome'[id] = "SKIP"
                            /\ skipped_notes' = skipped_notes + 1
                            /\ wrote' = wrote /\ media' = media
                            /\ IF <<id, P, C>> \in moved'
                               THEN fs' = With(Without(fs, P), C, fs[P])
                               ELSE fs' = fs /\ moved' = moved]_vars

C15_Witness ==
    /\ pc = "done" /\ opts.rename_local
    /\ \E m \in moved :
          /\ outcome[m[1]] = "SKIP"
          /\ m[3] = Canonical(m[1]) /\ m[3] \in DOMAIN fs /\ m[2] \notin DOMAIN fs
          /\ fs[m[3]].body = <<m[1], 1>>
          /\ keep_notes[m[1]].media # {}
          /\ <<m[1], "m1">> \notin media
    /\ wrote = {}

\* the positions of the scan order at which a file of note id is read
ScanPositions(order, id) == {k \in DOMAIN order : fs[order[k]].id = id}
Last(ks) == CHOOSE k \in ks : \A j \in ks : j <= k

\* the ids that two files of the directory carry
Collisions ==
    {i \in NoteIds : \E p, q \in DOMAIN fs : p # q /\ fs[p].id = i /\ fs[q].id = i}

\* C16 (id collision in the scan): when two note files carry the same id, the
\* index after the scan has one entry for the id, at the file scanned later;
\* the scan reports the collision; it changes no file, and the index, so the
\* earlier file's absence from it, stays as it is for the rest of the run.
C16_IdCollision ==
    [][/\ (pc = "dirs" /\ ~ScanRaises(fs)) =>
             \A order \in ScanOrders(fs) :
                 LET index == index_existing_files(order, fs, media)
                 IN  \A id \in Collisions :
                         /\ id \in DOMAIN index
                         /\ index[id].path = order[Last(ScanPositions(order, id))]
       /\ (pc = "dirs" /\ pc' = "indexed") =>
             /\ fs' = fs
             /\ \E order \in ScanOrders(fs) :
                   local_index' = index_existing_files(order, fs, media)
             /\ Collisions # {} => "Collision" \in ScanEchoes(fs, media)
       /\ pc \in {"indexed", "fetched", "loop"} => local_index' = local_index]_vars

\* C17 (index before mutation): files are created, updated, renamed or
\* deleted only after the scan of the run; the index is assigned by the scan,
\* before any such change, and stays that snapshot for the orphan step and
\* every iteration of the loop.
C17_IndexBeforeMutation ==
    [][/\ (fs' # fs \/ media' # media) => pc \in {"fetched", "loop"}
       /\ pc \in {"logged_in", "dirs"} => wrote = {} /\ moved = {} /\ unlinked = {}
       /\ (pc = "dirs" /\ pc' = "indexed") => fs' = fs /\ media' = media
       /\ local_index' # local_index =>
             \/ pc = "dirs" /\ pc' = "indexed"
             \/ pc' \in {"logged_in", "login_failed"} /\ local_index' = Empty
       /\ pc = "fetched" =>
             unlinked' = delete_local_only_files(local_index, keep_notes,
                                                 opts.delete_local).paths]_vars

C17_Witness ==
    /\ pc = "done"
    /\ unlinked # {} /\ wrote # {} /\ moved # {}
    /\ \E id \in DOMAIN local_index :
          local_index[id].path # NoPath /\ local_index[id].path \notin DOMAIN fs

C21_WriteIndexRoundTrip ==
    (pc = "done" /\ opts.header) =>
        \A w \in wrote :
            LET id == w[1]
                index == ScanFile(w[2], fs[w[2]], Empty)
            IN  /\ id \in DOMAIN index
                /\ index[id].path = w[2]
                /\ PyEq(index[id].timestamp_updated, keep_notes[id].updated)
                /\ Resolve(id, keep_notes[id], opts, index, fs, TRUE).branch = "SKIP"

\* no two files carry the same remote id / every markdown file can be read
\* and has the header keys
OneFilePerId(files) ==
    \A p, q \in DOMAIN files :
        (p # q /\ files[p].id # 0) => files[p].id # files[q].id
AllReadable(files) == \A p \in DOMAIN files : files[p].hdr = "ok"

\* C22 (one file per remote id): with the header enabled, a directory in
\* which no two note files carry the same id and every note file is readable
\* stays such a directory through every step of every run, whatever the
\* snapshots and the options.
C22_OneFilePerId ==
    [][(opts.header /\ OneFilePerId(fs) /\ AllReadable(fs)) =>
           (OneFilePerId(fs') /\ AllReadable(fs'))]_vars

C22_Witness ==
    /\ pc = "done" /\ prev_done /\ snapshot = MaxSnapshots /\ opts.header
    /\ OneFilePerId(fs) /\ AllReadable(fs)
    /\ Cardinality({p \in DOMAIN fs : fs[p].id # 0}) = 2
    /\ wrote # {} /\ moved # {}

=============================================================================
